---- MODULE Spec2Model ----
(***************************************************************************)
(* EarlyAllocator<PAGE_SIZE> of arceos/modules/bump_allocator: a double-   *)
(* ended bump allocator.  Bytes are handed out upward from `start`, pages  *)
(* downward from `end`.  usize arithmetic is modelled with a fixed word    *)
(* width: an overflowing operation either panics (overflow checks on, the  *)
(* debug profile) or wraps (overflow checks off, the release profile).     *)
(***************************************************************************)
EXTENDS Integers, FiniteSets, Sequences, TLC

\* ---- bounds of the model ------------------------------------------------
UsizeBits      == 6      \* width of usize in the model
MaxRegionPages == 3      \* init(start, size): size is MaxRegionPages pages
MaxSize        == 5      \* Layout::size() is 0, 1 or MaxSize
MaxAlignLog    == 3      \* Layout::align() is 1 or 2^MaxAlignLog
MaxNumPages    == 2      \* alloc_pages: num_pages ranges over 0..MaxNumPages
MaxLive        == 2      \* the caller holds at most MaxLive handles per zone

\* ---- bounds of the 4096-byte-page scenario -------------------------------
ExampleUsizeBits    == 18   \* width of usize in the scenario
ExampleMaxStartPage == 3    \* the region starts at page 1..ExampleMaxStartPage
ExampleMaxBytes     == 24   \* the caller stops allocating bytes at this use
ExampleMaxPages     == 6    \* the caller stops allocating pages at this use

\* ---- the instantiation -------------------------------------------------
PageSize == 4            \* EarlyAllocator<PAGE_SIZE>

\* ---- HashMap: bounds and constants ---------------------------------------
HashBits  == 4           \* low bits of usize the hash is computed on
MaxVal    == 2           \* values are 1..MaxVal
StampHigh == 1092092     \* stamp = StampHigh * 2^20 + StampLow
StampLow  == 458818      \*       = 1145141919810

VARIABLES
    PAGE_SIZE,        \* const generic parameter of the type
    usize_bits,       \* width of usize on the target
    start, end, b_next, b_alloc, b_end, p_alloc, p_next, p_end,
    initialized,      \* init() has been called
    panicked,         \* a panic unwound out of the allocator
    last,             \* the most recent call and what it returned
    tab,              \* HashMap: the buckets, each a sequence of <<key, value>>
    m_size,           \* HashMap: the field `size`
    stamp,            \* HashMap: the field `stamp`, its low HashBits bits
    mlast             \* HashMap: the most recent call and what it returned

fields == <<start, end, b_next, b_end, b_alloc, p_next, p_end, p_alloc>>
config == <<PAGE_SIZE, usize_bits>>
allocator == <<PAGE_SIZE, usize_bits, start, end, b_next, b_alloc, b_end,
               p_alloc, p_next, p_end, initialized, panicked, last>>
hashmap == <<tab, m_size, stamp, mlast>>
vars == <<PAGE_SIZE, usize_bits, start, end, b_next, b_alloc, b_end, p_alloc,
          p_next, p_end, initialized, panicked, last,
          tab, m_size, stamp, mlast>>

RECURSIVE Pow2(_)
Pow2(n) == IF n = 0 THEN 1 ELSE 2 * Pow2(n - 1)

\* ---- usize arithmetic ---------------------------------------------------
Modulus == Pow2(usize_bits)
Wrap(x) == x % Modulus
Fits(x) == x >= 0 /\ x < Modulus

RECURSIVE BitAnd(_, _)
BitAnd(a, b) ==
    IF a = 0 \/ b = 0 THEN 0
    ELSE (a % 2) * (b % 2) + 2 * BitAnd(a \div 2, b \div 2)

BitNot(a) == Modulus - 1 - a

\* pos & !(align - 1)
align_down(pos, align) == BitAnd(pos, BitNot(Wrap(align - 1)))

\* align_up() rounding down instead of up.
align_up_rounds_down(pos, align) == BitAnd(pos, BitNot(Wrap(align - 1)))

\* (pos + align - 1) & !(align - 1)
align_up(pos, align) ==
    BitAnd(Wrap(Wrap(pos + align) - 1), BitNot(Wrap(align - 1)))

\* What the caller sees of a call: which operation, its result, and the
\* address a successful allocation returned (0 otherwise).
Call(op, ret, addr) == [op |-> op, ret |-> ret, addr |-> addr]

\* ---- HashMap ------------------------------------------------------------
\* Option<V>: None is <<>>, Some(v) is <<v>>.
\* The hash is computed on the low HashBits bits of usize. Shifts, wrapping
\* additions and xor never carry from high bits to low bits, and the number
\* of buckets divides 2^HashBits, so the bucket index is the one the 64-bit
\* computation gives.
HashModulus == 2^HashBits

RECURSIVE BitXor(_, _)
BitXor(a, b) ==
    IF a = 0 THEN b
    ELSE IF b = 0 THEN a
    ELSE ((a + b) % 2) + 2 * BitXor(a \div 2, b \div 2)

MCall(op, key, ret) == [op |-> op, key |-> key, ret |-> ret]

\* HashMap::new
HashMapNew ==
    /\ tab = [i \in 1..16 |-> <<>>]
    /\ m_size = 0
    /\ stamp = ((StampHigh % HashModulus) * (2^20 % HashModulus)
                + StampLow) % HashModulus
    /\ mlast = MCall("new", <<>>, <<>>)

\* hash = (hash << 5).wrapping_add(hash) ^ byte, for every byte of the key
RECURSIVE hash_bytes(_, _)
hash_bytes(h, bytes) ==
    IF bytes = <<>> THEN h
    ELSE hash_bytes(BitXor((h * 2^5 + h) % HashModulus,
                           Head(bytes) % HashModulus),
                    Tail(bytes))

\* The bucket index (0-based, as in the code).
hash(key) == hash_bytes(stamp, key) % Len(tab)

\* bucket.iter().position(|(existing_key, _)| existing_key == key),
\* 1-based; 0 when there is none.
position(bucket, key) ==
    IF \E i \in 1..Len(bucket) : bucket[i][1] = key
    THEN CHOOSE i \in 1..Len(bucket) :
             /\ bucket[i][1] = key
             /\ \A j \in 1..(i - 1) : bucket[j][1] # key
    ELSE 0

\* tab.resize(new_len, Vec::new())
resize(t, new_len) ==
    [i \in 1..new_len |-> IF i <= Len(t) THEN t[i] ELSE <<>>]

\* insert() pushing the pair without looking for the key.
insert_always_pushes(key, value) ==
    LET h    == hash(key)
        tab1 == IF h >= Len(tab) THEN resize(tab, h * 2) ELSE tab
    IN  /\ tab' = [tab1 EXCEPT ![h + 1] = Append(tab1[h + 1], <<key, value>>)]
        /\ m_size' = m_size + 1
        /\ mlast' = MCall("insert", key, <<>>)
        /\ UNCHANGED stamp

insert(key, value) ==
    LET h      == hash(key)
        tab1   == IF h >= Len(tab) THEN resize(tab, h * 2) ELSE tab
        bucket == tab1[h + 1]
        idx    == position(bucket, key)
    IN  /\ IF idx # 0
           THEN /\ tab' = [tab1 EXCEPT ![h + 1][idx] = <<key, value>>]
                /\ m_size' = m_size
           ELSE /\ tab' = [tab1 EXCEPT ![h + 1] = Append(bucket, <<key, value>>)]
                /\ m_size' = m_size + 1
        /\ mlast' = MCall("insert", key, <<>>)
        /\ UNCHANGED stamp

get(key) ==
    LET bucket == tab[hash(key) + 1]
        idx    == position(bucket, key)
    IN  IF idx # 0 THEN <<bucket[idx][2]>> ELSE <<>>

\* Vec::remove(index): the later elements shift down.
vec_remove(v, index) ==
    [i \in 1..(Len(v) - 1) |-> IF i < index THEN v[i] ELSE v[i + 1]]

remove(key) ==
    LET h      == hash(key)
        bucket == tab[h + 1]
        idx    == position(bucket, key)
    IN  /\ IF idx # 0
           THEN /\ tab' = [tab EXCEPT ![h + 1] = vec_remove(bucket, idx)]
                /\ m_size' = m_size - 1
                /\ mlast' = MCall("remove", key, <<bucket[idx][2]>>)
           ELSE /\ UNCHANGED <<tab, m_size>>
                /\ mlast' = MCall("remove", key, <<>>)
        /\ UNCHANGED stamp

\* tab.iter().flatten(), as the sequence of pairs it yields
RECURSIVE flatten(_)
flatten(t) == IF t = <<>> THEN <<>> ELSE Head(t) \o flatten(Tail(t))

iter == flatten(tab)

\* ---- EarlyAllocator::new ------------------------------------------------
Init ==
    /\ PAGE_SIZE = PageSize
    /\ usize_bits = UsizeBits
    /\ start = 0 /\ end = 0
    /\ b_next = 0 /\ b_alloc = 0 /\ b_end = 0
    /\ p_alloc = 0 /\ p_next = 0 /\ p_end = 0
    /\ initialized = FALSE
    /\ panicked = FALSE
    /\ last = Call("new", "Ok", 0)
    /\ HashMapNew

\* ---- accounting ---------------------------------------------------------
\* (self.end - self.p_end) / Self::PAGE_SIZE
total_pages == Wrap(end - p_end) \div PAGE_SIZE

\* self.b_next - self.start
used_bytes == Wrap(b_next - start)

\* (self.end - self.p_next) / Self::PAGE_SIZE
used_pages == Wrap(end - p_next) \div PAGE_SIZE

\* self.b_end - self.start
total_bytes == Wrap(b_end - start)

\* self.b_end - self.b_next
available_bytes == Wrap(b_end - b_next)

\* (self.p_next - self.p_end) / Self::PAGE_SIZE
available_pages == Wrap(p_next - p_end) \div PAGE_SIZE

\* ---- growth of the two zones --------------------------------------------
\* increase_bytes() without its bound check against p_end.
increase_bytes_unchecked ==
    [ovf   |-> ~Fits(b_end + PAGE_SIZE),
     ok    |-> TRUE,
     b_end |-> Wrap(b_end + PAGE_SIZE)]

\* increase_bytes() storing the new ceiling before it checks it.
increase_bytes_stores_first ==
    LET new_end == Wrap(b_end + PAGE_SIZE)
    IN  [ovf   |-> ~Fits(b_end + PAGE_SIZE),
         ok    |-> ~(new_end > p_end),
         b_end |-> new_end]

\* increase_bytes() granting two pages at a time.
increase_bytes_two_pages ==
    LET new_end == Wrap(b_end + 2 * PAGE_SIZE)
    IN  [ovf   |-> ~Fits(b_end + 2 * PAGE_SIZE),
         ok    |-> ~(new_end > p_end),
         b_end |-> IF new_end > p_end THEN b_end ELSE new_end]

\* increase_bytes() refusing a ceiling that only just reaches p_end.
increase_bytes_strict ==
    LET new_end == Wrap(b_end + PAGE_SIZE)
    IN  [ovf   |-> ~Fits(b_end + PAGE_SIZE),
         ok    |-> ~(new_end >= p_end),
         b_end |-> IF new_end >= p_end THEN b_end ELSE new_end]

\* The outcome of increase_bytes(): whether it returned Ok, the value b_end
\* has afterwards, and whether its arithmetic overflowed.
increase_bytes ==
    LET new_end == Wrap(b_end + PAGE_SIZE)
    IN  [ovf   |-> ~Fits(b_end + PAGE_SIZE),
         ok    |-> ~(new_end > p_end),
         b_end |-> IF new_end > p_end THEN b_end ELSE new_end]

\* increase_pages() with a fixed step of one page, like increase_bytes().
increase_pages_one_page ==
    LET new_end == Wrap(p_end - PAGE_SIZE)
    IN  [ovf   |-> ~Fits(p_end - PAGE_SIZE),
         ok    |-> ~(new_end < b_end),
         p_end |-> IF new_end < b_end THEN p_end ELSE new_end]

\* The outcome of increase_pages(), likewise.
increase_pages ==
    LET step    == PAGE_SIZE * total_pages
        new_end == Wrap(p_end - Wrap(step))
    IN  [ovf   |-> ~Fits(end - p_end) \/ ~Fits(step) \/ ~Fits(p_end - Wrap(step)),
         ok    |-> ~(new_end < b_end),
         p_end |-> IF new_end < b_end THEN p_end ELSE new_end]

\* ---- arithmetic overflow ------------------------------------------------
\* What a call whose arithmetic overflowed can do: panic or carry on with the
\* wrapped values.  A call without overflow never panics.
Outcomes(ovf) == IF ovf THEN {"panic", "wrap"} ELSE {"wrap"}

Panic(op) ==
    /\ panicked' = TRUE
    /\ last' = Call(op, "Panic", 0)
    /\ UNCHANGED fields

\* ---- BaseAllocator ------------------------------------------------------
init(s, size) ==
    /\ ~initialized /\ ~panicked
    /\ \E o \in Outcomes(~Fits(s + size)) :
         IF o = "panic"
         THEN Panic("init") /\ UNCHANGED initialized
         ELSE /\ initialized' = TRUE
              /\ start' = s
              /\ end' = Wrap(s + size)
              /\ b_next' = s
              /\ p_next' = Wrap(s + size)
              /\ b_end' = s
              /\ p_end' = Wrap(s + size)
              /\ b_alloc' = 0
              /\ p_alloc' = 0
              /\ last' = Call("init", "Ok", 0)
              /\ UNCHANGED panicked
    /\ UNCHANGED config

\* add_memory() that extends the region by the range it is given.
add_memory_extends(s, size) ==
    /\ ~panicked
    /\ end' = Wrap(end + size)
    /\ last' = Call("add_memory", "Ok", 0)
    /\ UNCHANGED <<config, start, b_next, b_end, b_alloc, p_next, p_end,
                   p_alloc, initialized, panicked>>

add_memory(s, size) ==
    /\ ~panicked
    /\ last' = Call("add_memory", "Ok", 0)
    /\ UNCHANGED <<config, fields, initialized, panicked>>

\* ---- ByteAllocator ------------------------------------------------------
\* alloc() that counts the handle before it knows the request fits.
alloc_counts_failures(size, align) ==
    /\ initialized /\ ~panicked
    /\ LET alloc_start == align_up(b_next, align)
           alloc_end   == Wrap(alloc_start + size)
           grow        == alloc_end >= b_end
           inc         == increase_bytes
           fail        == grow /\ ~inc.ok
           ovf         == \/ ~Fits(b_next + align)
                          \/ ~Fits(alloc_start + size)
                          \/ (grow /\ inc.ovf)
                          \/ ~Fits(b_alloc + 1)
       IN  \E o \in Outcomes(ovf) :
           IF o = "panic"
           THEN Panic("alloc")
           ELSE IF fail
           THEN /\ b_end' = inc.b_end
                /\ b_alloc' = Wrap(b_alloc + 1)
                /\ last' = Call("alloc", "NoMemory", 0)
                /\ UNCHANGED <<start, end, b_next, p_next, p_end, p_alloc,
                               panicked>>
           ELSE /\ b_end' = IF grow THEN inc.b_end ELSE b_end
                /\ b_alloc' = Wrap(b_alloc + 1)
                /\ b_next' = alloc_end
                /\ last' = Call("alloc", "Ok", alloc_start)
                /\ UNCHANGED <<start, end, p_next, p_end, p_alloc, panicked>>
    /\ UNCHANGED <<config, initialized>>

alloc(size, align) ==
    /\ initialized /\ ~panicked
    /\ LET alloc_start == align_up(b_next, align)
           alloc_end   == Wrap(alloc_start + size)
           grow        == alloc_end >= b_end
           inc         == increase_bytes
           fail        == grow /\ ~inc.ok
           ovf         == \/ ~Fits(b_next + align)
                          \/ ~Fits(alloc_start + size)
                          \/ (grow /\ inc.ovf)
                          \/ (~fail /\ ~Fits(b_alloc + 1))
       IN  \E o \in Outcomes(ovf) :
           IF o = "panic"
           THEN Panic("alloc")
           ELSE IF fail
           THEN /\ b_end' = inc.b_end
                /\ last' = Call("alloc", "NoMemory", 0)
                /\ UNCHANGED <<start, end, b_next, b_alloc, p_next, p_end,
                               p_alloc, panicked>>
           ELSE /\ b_end' = IF grow THEN inc.b_end ELSE b_end
                /\ b_alloc' = Wrap(b_alloc + 1)
                /\ b_next' = alloc_end
                /\ last' = Call("alloc", "Ok", alloc_start)
                /\ UNCHANGED <<start, end, p_next, p_end, p_alloc, panicked>>
    /\ UNCHANGED <<config, initialized>>

\* dealloc() that also gives the granted ceiling back at the reset.
dealloc_shrinks ==
    /\ initialized /\ ~panicked
    /\ b_alloc > 0
    /\ b_alloc' = b_alloc - 1
    /\ b_next' = IF b_alloc - 1 = 0 THEN start ELSE b_next
    /\ b_end' = IF b_alloc - 1 = 0 THEN start ELSE b_end
    /\ last' = Call("dealloc", "Ok", 0)
    /\ UNCHANGED <<config, start, end, p_next, p_end, p_alloc,
                   initialized, panicked>>

\* dealloc() that forgets to rewind the frontier at the reset.
dealloc_keeps_frontier ==
    /\ initialized /\ ~panicked
    /\ b_alloc > 0
    /\ b_alloc' = b_alloc - 1
    /\ last' = Call("dealloc", "Ok", 0)
    /\ UNCHANGED <<config, start, end, b_next, b_end, p_next, p_end, p_alloc,
                   initialized, panicked>>

\* dealloc() that rewinds the frontier on every call.
dealloc_always_rewinds ==
    /\ initialized /\ ~panicked
    /\ b_alloc > 0
    /\ b_alloc' = b_alloc - 1
    /\ b_next' = start
    /\ last' = Call("dealloc", "Ok", 0)
    /\ UNCHANGED <<config, start, end, b_end, p_next, p_end, p_alloc,
                   initialized, panicked>>

\* The caller pairs every dealloc with an earlier successful alloc, so a
\* handle is outstanding when dealloc is called.
dealloc ==
    /\ initialized /\ ~panicked
    /\ b_alloc > 0
    /\ b_alloc' = b_alloc - 1
    /\ b_next' = IF b_alloc - 1 = 0 THEN start ELSE b_next
    /\ last' = Call("dealloc", "Ok", 0)
    /\ UNCHANGED <<config, start, end, b_end, p_next, p_end, p_alloc,
                   initialized, panicked>>

\* ---- PageAllocator ------------------------------------------------------
\* alloc_pages() with the alignment check left out.
invalid_align_unchecked(align_pow2) == FALSE

\* align_pow2 % Self::PAGE_SIZE != 0
invalid_align(align_pow2) == align_pow2 % PAGE_SIZE # 0

alloc_pages(num_pages, align_pow2) ==
    /\ initialized /\ ~panicked
    /\ IF invalid_align(align_pow2)
       THEN /\ last' = Call("alloc_pages", "InvalidParam", 0)
            /\ UNCHANGED <<fields, panicked>>
       ELSE
       LET align       == align_pow2 \div PAGE_SIZE
           bytes       == num_pages * PAGE_SIZE
           alloc_start == align_down(Wrap(p_next - Wrap(bytes)), align)
           grow        == alloc_start <= p_end
           inc         == increase_pages
           fail        == grow /\ ~inc.ok
           ovf         == \/ ~Fits(bytes)
                          \/ ~Fits(p_next - Wrap(bytes))
                          \/ ~Fits(align - 1)
                          \/ (grow /\ inc.ovf)
                          \/ (~fail /\ ~Fits(p_alloc + 1))
       IN  \E o \in Outcomes(ovf) :
           IF o = "panic"
           THEN Panic("alloc_pages")
           ELSE IF fail
           THEN /\ p_end' = inc.p_end
                /\ last' = Call("alloc_pages", "NoMemory", 0)
                /\ UNCHANGED <<start, end, b_next, b_end, b_alloc, p_next,
                               p_alloc, panicked>>
           ELSE /\ p_end' = IF grow THEN inc.p_end ELSE p_end
                /\ p_alloc' = Wrap(p_alloc + 1)
                /\ p_next' = alloc_start
                /\ last' = Call("alloc_pages", "Ok", alloc_start)
                /\ UNCHANGED <<start, end, b_next, b_end, b_alloc, panicked>>
    /\ UNCHANGED <<config, initialized>>

\* dealloc_pages() that forgets to rewind the frontier at the reset.
dealloc_pages_keeps_frontier ==
    /\ initialized /\ ~panicked
    /\ p_alloc > 0
    /\ p_alloc' = p_alloc - 1
    /\ last' = Call("dealloc_pages", "Ok", 0)
    /\ UNCHANGED <<config, start, end, b_next, b_end, b_alloc, p_next, p_end,
                   initialized, panicked>>

\* As for dealloc: called only while a page handle is outstanding.
dealloc_pages ==
    /\ initialized /\ ~panicked
    /\ p_alloc > 0
    /\ p_alloc' = p_alloc - 1
    /\ p_next' = IF p_alloc - 1 = 0 THEN end ELSE p_next
    /\ last' = Call("dealloc_pages", "Ok", 0)
    /\ UNCHANGED <<config, start, end, b_next, b_end, b_alloc, p_end,
                   initialized, panicked>>

\* ---- the calls the boot code can make -----------------------------------
Starts      == {PAGE_SIZE}
RegionSizes == {MaxRegionPages * PAGE_SIZE}
Sizes       == {0, 1, MaxSize}
Aligns      == {1, Pow2(MaxAlignLog)}
NumPages    == 0..MaxNumPages
PageAligns  == {1, PAGE_SIZE, 2 * PAGE_SIZE}

DoInit         == /\ \E s \in Starts, size \in RegionSizes : init(s, size)
                  /\ UNCHANGED hashmap
DoAddMemory    == /\ \E s \in Starts, size \in RegionSizes :
                         add_memory(s, size)
                  /\ UNCHANGED hashmap
DoAlloc        == /\ \E size \in Sizes, align \in Aligns :
                         b_alloc < MaxLive /\ alloc(size, align)
                  /\ UNCHANGED hashmap
DoDealloc      == dealloc /\ UNCHANGED hashmap
DoAllocPages   == /\ \E n \in NumPages, a \in PageAligns :
                         p_alloc < MaxLive /\ alloc_pages(n, a)
                  /\ UNCHANGED hashmap
DoDeallocPages == dealloc_pages /\ UNCHANGED hashmap

Next ==
    \/ DoInit
    \/ DoAddMemory
    \/ DoAlloc
    \/ DoDealloc
    \/ DoAllocPages
    \/ DoDeallocPages

Spec == Init /\ [][Next]_vars

\* ---- a caller that only ever allocates bytes ----------------------------
KeepAlloc == /\ \E size \in Sizes \ {0}, align \in Aligns : alloc(size, align)
             /\ UNCHANGED hashmap

NextBytes ==
    \/ DoInit
    \/ KeepAlloc

\* The caller initialises the allocator and then keeps calling alloc.
SpecByteExhaust ==
    Init /\ [][NextBytes]_vars /\ WF_vars(DoInit) /\ WF_vars(KeepAlloc)

\* ---- the scenario with 4096-byte pages and a 65536-byte region ----------
ExamplePageSize   == Pow2(12)
ExampleRegionSize == Pow2(16)

InitExample ==
    /\ PAGE_SIZE = ExamplePageSize
    /\ usize_bits = ExampleUsizeBits
    /\ start = 0 /\ end = 0
    /\ b_next = 0 /\ b_alloc = 0 /\ b_end = 0
    /\ p_alloc = 0 /\ p_next = 0 /\ p_end = 0
    /\ initialized = FALSE
    /\ panicked = FALSE
    /\ last = Call("new", "Ok", 0)
    /\ HashMapNew

ExInit         == /\ \E k \in 1..ExampleMaxStartPage :
                         init(k * PAGE_SIZE, ExampleRegionSize)
                  /\ UNCHANGED hashmap
ExAlloc        == /\ b_alloc < MaxLive /\ used_bytes < ExampleMaxBytes
                  /\ alloc(8, 8)
                  /\ UNCHANGED hashmap
ExDealloc      == dealloc /\ UNCHANGED hashmap
ExAllocPages   == /\ p_alloc < MaxLive /\ used_pages < ExampleMaxPages
                  /\ alloc_pages(2, PAGE_SIZE)
                  /\ UNCHANGED hashmap
ExDeallocPages == dealloc_pages /\ UNCHANGED hashmap

NextExample ==
    \/ ExInit
    \/ ExAlloc
    \/ ExDealloc
    \/ ExAllocPages
    \/ ExDeallocPages

SpecExample == InitExample /\ [][NextExample]_vars

\* ---- the callers of the HashMap ------------------------------------------
\* Keys are byte strings; <<1>>, <<17>> and <<33>> hash to one bucket.
Keys   == {<<1>>, <<17>>, <<33>>, <<1, 2>>}
Values == 1..MaxVal

MapInsert == /\ \E k \in Keys, v \in Values : insert(k, v)
             /\ UNCHANGED allocator
MapGet    == /\ \E k \in Keys : mlast' = MCall("get", k, get(k))
             /\ UNCHANGED <<tab, m_size, stamp>>
             /\ UNCHANGED allocator
MapRemove == /\ \E k \in Keys : remove(k)
             /\ UNCHANGED allocator

NextMap ==
    \/ MapInsert
    \/ MapGet
    \/ MapRemove

SpecMap == Init /\ [][NextMap]_vars

\* ======================= properties ======================================

\* C1: after init and any balanced sequence of calls,
\* start <= b_next <= b_end <= p_end <= p_next <= end.
C1_Ordering ==
    initialized =>
        /\ start <= b_next
        /\ b_next <= b_end
        /\ b_end <= p_end
        /\ p_end <= p_next
        /\ p_next <= end

\* C2: ranges returned by successful allocations with no reset in between do
\* not overlap and stay on their side of the opposite frontier: a non-empty
\* byte range ends at or below p_next, a non-empty page range starts at or
\* above b_next, and a page range returned right after a byte range is
\* disjoint from it.
C2_NonOverlap ==
    [][ /\ \A size \in Sizes \ {0}, align \in Aligns :
             (alloc(size, align) /\ last'.ret = "Ok")
                 => last'.addr + size <= p_next'
        /\ \A n \in NumPages \ {0}, a \in PageAligns :
             (alloc_pages(n, a) /\ last'.ret = "Ok")
                 => /\ last'.addr >= b_next'
                    /\ (last.op = "alloc" /\ last.ret = "Ok" /\ last.addr < b_next)
                         => \/ last'.addr + n * PAGE_SIZE <= last.addr
                            \/ b_next <= last'.addr ]_vars

\* C3: a successful alloc(size, align) returns a multiple of align that is
\* not below the byte frontier the call started from.
C3_Aligned ==
    [][ (last'.op = "alloc" /\ last'.ret = "Ok") =>
          \A size \in Sizes, align \in Aligns :
              alloc(size, align)
                  => /\ last'.addr % align = 0
                     /\ last'.addr >= b_next ]_vars

\* The first allocation after a reset was padded up from start.
C3_Witness ==
    /\ last.op = "alloc" /\ last.ret = "Ok"
    /\ b_alloc = 1
    /\ last.addr > start
    /\ last.addr % Pow2(MaxAlignLog) = 0

\* C4: alloc_pages with an alignment that is no multiple of PAGE_SIZE returns
\* InvalidParam and changes none of the eight fields.
C4_InvalidAlign ==
    [][ last'.op = "alloc_pages" =>
          \A n \in NumPages, a \in PageAligns :
              (a % PAGE_SIZE # 0 /\ alloc_pages(n, a))
                  => /\ last'.ret = "InvalidParam"
                     /\ UNCHANGED fields ]_vars

C4_Witness ==
    /\ last.op = "alloc_pages" /\ last.ret = "InvalidParam"
    /\ b_alloc > 0 /\ p_alloc > 0

\* C5: a successful alloc_pages(n, align) with n >= 1 never returns an address
\* below b_end; a request that would cross below b_end fails with NoMemory.
C5_PagesAboveByteCeiling ==
    [][ \A n \in NumPages \ {0}, a \in PageAligns :
          (alloc_pages(n, a) /\ last'.ret = "Ok") => last'.addr >= b_end ]_vars

\* C6: a caller that keeps allocating at least one byte and never
\* deallocates is eventually told NoMemory.
C6_ByteExhaustion == <>(last.op = "alloc" /\ last.ret = "NoMemory")

C6_Witness ==
    /\ last.op = "alloc" /\ last.ret = "NoMemory"
    /\ b_end = end
    /\ b_alloc >= MaxRegionPages

\* C7: an alloc or alloc_pages that returns NoMemory leaves both frontiers,
\* both limits and both counts as they were.
C7_NoPartialMutation ==
    [][ (last'.op \in {"alloc", "alloc_pages"} /\ last'.ret = "NoMemory")
          => UNCHANGED <<b_next, p_next, b_end, p_end, b_alloc, p_alloc>> ]_vars

C7_Witness ==
    /\ last.op = "alloc" /\ last.ret = "NoMemory"
    /\ b_alloc > 0
    /\ b_end + PAGE_SIZE > p_end

\* C8: no call after init lowers b_end or raises p_end.
C8_MonotoneLimits ==
    [][ initialized => (b_end' >= b_end /\ p_end' <= p_end) ]_vars

\* The byte zone was grown, then emptied again: its ceiling stayed.
C8_Witness ==
    /\ last.op = "dealloc"
    /\ b_alloc = 0
    /\ b_end >= start + 2 * PAGE_SIZE

C10_ResetReuse ==
    [][ (b_alloc = 0 /\ last'.op = "alloc" /\ last'.ret = "Ok") =>
          \A size \in Sizes, align \in Aligns :
              (start % align = 0 /\ alloc(size, align))
                  => last'.addr = start ]_vars

\* A successful alloc returned start for less than a page while two pages
\* were already granted: this call did not grow the zone, so two earlier
\* allocations did, and both were given back before this call.
C10_Witness ==
    /\ last.op = "alloc" /\ last.ret = "Ok"
    /\ last.addr = start
    /\ b_alloc = 1
    /\ b_next > start /\ b_next - start < PAGE_SIZE
    /\ b_end >= start + 2 * PAGE_SIZE

\* C11: a successful alloc_pages(num_pages, align), align a power-of-two
\* multiple of PAGE_SIZE that divides end, returns a multiple of align (in
\* bytes) that is at most p_next - num_pages * PAGE_SIZE.
C11_PageAligned ==
    [][ (last'.op = "alloc_pages" /\ last'.ret = "Ok") =>
          \A n \in NumPages, a \in PageAligns :
              (a % PAGE_SIZE = 0 /\ end % a = 0 /\ alloc_pages(n, a))
                  => /\ last'.addr % a = 0
                     /\ last'.addr <= p_next - n * PAGE_SIZE ]_vars

\* C14: the accounting getters add up and do not underflow:
\* used_bytes + available_bytes = total_bytes with b_next <= b_end, and
\* used_pages + available_pages = total_pages with p_end <= p_next <= end.
C14_Accounting ==
    initialized =>
        /\ b_next <= b_end
        /\ used_bytes + available_bytes = total_bytes
        /\ p_end <= p_next /\ p_next <= end
        /\ used_pages + available_pages = total_pages

C16_AddMemoryNoOp ==
    /\ [](~panicked => \A s \in Starts, size \in RegionSizes :
                         ENABLED add_memory(s, size))
    /\ [][ \A s \in Starts, size \in RegionSizes :
             add_memory(s, size)
                 => /\ last'.ret = "Ok"
                    /\ UNCHANGED <<fields, initialized>> ]_vars

C16_Witness ==
    /\ last.op = "add_memory" /\ last.ret = "Ok"
    /\ b_alloc > 0
    /\ p_next < end

\* C17: alloc tries to grow iff its candidate end is >= b_end; a growing call
\* fails with NoMemory and leaves b_end alone iff b_end + PAGE_SIZE > p_end,
\* and otherwise raises b_end by exactly PAGE_SIZE; so b_end - start is always
\* a multiple of PAGE_SIZE.
C17_ByteGrowth ==
    /\ [](initialized => (b_end - start) % PAGE_SIZE = 0)
    /\ [][ (last'.op = "alloc" /\ last'.ret # "Panic") =>
             \A size \in Sizes, align \in Aligns :
                 alloc(size, align) =>
                   IF align_up(b_next, align) + size >= b_end
                   THEN IF b_end + PAGE_SIZE > p_end
                        THEN last'.ret = "NoMemory" /\ b_end' = b_end
                        ELSE last'.ret = "Ok" /\ b_end' = b_end + PAGE_SIZE
                   ELSE last'.ret = "Ok" /\ b_end' = b_end ]_vars

\* The first allocation since a reset was larger than a page and the ceiling
\* is one page above start: the call grew the zone by one step only.
C17_Witness ==
    /\ last.op = "alloc" /\ last.ret = "Ok"
    /\ b_alloc = 1
    /\ b_end = start + PAGE_SIZE
    /\ b_next > b_end

\* C18: alloc_pages tries to grow iff its candidate address is <= p_end; a
\* growing call fails with NoMemory and leaves p_end alone iff
\* p_end - PAGE_SIZE * total_pages() (total_pages() as before the call) is
\* below b_end, and otherwise lowers p_end to exactly that value.
C18_PageGrowth ==
    [][ (last'.op = "alloc_pages" /\ last'.ret \in {"Ok", "NoMemory"}) =>
          \A n \in NumPages, a \in PageAligns :
              (a % PAGE_SIZE = 0 /\ alloc_pages(n, a)) =>
                LET cand    == align_down(Wrap(p_next - n * PAGE_SIZE),
                                          a \div PAGE_SIZE)
                    lowered == p_end - PAGE_SIZE * total_pages
                IN  IF cand <= p_end
                    THEN IF lowered < b_end
                         THEN last'.ret = "NoMemory" /\ p_end' = p_end
                         ELSE last'.ret = "Ok" /\ p_end' = lowered
                    ELSE last'.ret = "Ok" /\ p_end' = p_end ]_vars

\* A page allocation went through the growth step.
C18_Witness ==
    /\ last.op = "alloc_pages" /\ last.ret = "Ok"
    /\ last.addr < p_end
    /\ last.addr >= b_end
    /\ p_alloc = 2

\* C19: each count follows the calls: a successful alloc adds one to
\* b_alloc, a dealloc takes one off, and no other call (a failed allocation
\* included) changes it; likewise p_alloc with alloc_pages and dealloc_pages.
\* Both start at zero at init and neither goes below zero.
C19_Counts ==
    /\ [](b_alloc >= 0 /\ p_alloc >= 0)
    /\ [][ IF last'.op = "init"
           THEN last'.ret = "Ok" => (b_alloc' = 0 /\ p_alloc' = 0)
           ELSE /\ b_alloc' = b_alloc
                     + (IF last'.op = "alloc" /\ last'.ret = "Ok" THEN 1 ELSE 0)
                     - (IF last'.op = "dealloc" THEN 1 ELSE 0)
                /\ p_alloc' = p_alloc
                     + (IF last'.op = "alloc_pages" /\ last'.ret = "Ok"
                        THEN 1 ELSE 0)
                     - (IF last'.op = "dealloc_pages" THEN 1 ELSE 0) ]_vars

\* A failed alloc while one handle of each zone was outstanding.
C19_Witness ==
    /\ last.op = "alloc" /\ last.ret = "NoMemory"
    /\ b_alloc = 1 /\ p_alloc = 1

\* C12: with 4096-byte pages and a 65536-byte region at a page-aligned A,
\* the first alloc(8, 8) after init raises b_end from A to A + 4096 and
\* returns A; giving that only allocation back makes used_bytes() zero while
\* total_bytes() stays 4096.
C12_ByteExample ==
    [][ /\ (last.op = "init" /\ alloc(8, 8)) =>
             /\ last'.ret = "Ok" /\ last'.addr = start
             /\ b_end = start /\ b_end' = start + 4096
        /\ (b_alloc = 1 /\ total_bytes = 4096 /\ last'.op = "dealloc") =>
             /\ used_bytes' = 0
             /\ total_bytes' = 4096 ]_vars

C12_Witness ==
    /\ PAGE_SIZE = 4096 /\ end - start = 65536
    /\ last.op = "dealloc"
    /\ b_alloc = 0
    /\ used_bytes = 0 /\ total_bytes = 4096

\* C13: in the same scenario, alloc_pages(2, 4096) right after the first
\* alloc(8, 8) returns A + 65536 - 8192 and lowers p_end: afterwards p_end is
\* below A + 65536 and not above the returned address.
C13_PageExample ==
    [][ ( /\ last.op = "alloc" /\ last.ret = "Ok" /\ last.addr = start
          /\ b_alloc = 1 /\ p_alloc = 0 /\ b_end = start + 4096
          /\ alloc_pages(2, 4096) ) =>
             /\ last'.ret = "Ok"
             /\ last'.addr = end - 8192
             /\ p_end' < end
             /\ p_end' <= last'.addr ]_vars

\* C20: the HashMap is a finite map. Initially and after every remove(k) the
\* key is absent; after insert(k, v) get(k) is Some(v); no call changes what
\* get returns for another key; remove(k) returns what get(k) returned before
\* it; inserting a present key adds no entry; iter() yields every present key
\* exactly once, with the value get returns, and `size` entries in all.
C20_FiniteMap ==
    /\ (\A k \in Keys : get(k) = <<>>)
    /\ [](LET it == iter
          IN  /\ m_size = Len(it)
              /\ \A i, j \in 1..Len(it) : it[i][1] = it[j][1] => i = j
              /\ \A i \in 1..Len(it) : get(it[i][1]) = <<it[i][2]>>
              /\ \A k \in Keys :
                     get(k) # <<>> => \E i \in 1..Len(it) : it[i][1] = k)
    /\ [][ /\ \A k \in Keys :
                /\ mlast'.op = "insert" /\ mlast'.key = k =>
                      /\ \E v \in Values : insert(k, v) /\ get(k)' = <<v>>
                      /\ get(k) # <<>> => m_size' = m_size
                      /\ get(k) = <<>> => m_size' = m_size + 1
                /\ mlast'.op = "remove" /\ mlast'.key = k =>
                      /\ mlast'.ret = get(k)
                      /\ get(k)' = <<>>
                      /\ m_size' = m_size - Len(get(k))
                /\ mlast'.op = "get" /\ mlast'.key = k =>
                      /\ mlast'.ret = get(k)
                      /\ get(k)' = get(k)
                /\ mlast'.key # k => get(k)' = get(k) ]_hashmap

\* A remove returned a value out of a bucket that still chains two keys.
C20_Witness ==
    /\ mlast.op = "remove" /\ mlast.ret # <<>>
    /\ \E i \in 1..Len(tab) : Len(tab[i]) >= 2
    /\ m_size >= 3

====
